---- MODULE Spec2Model ----
(***************************************************************************)
(* Model of src/src/bresenham.rs: the generic integer contract LineRSInt,  *)
(* the signed-magnitude value SignedInt<T> (diff_of, from, sub, add) and   *)
(* the rasterizer calculate_line.  T is instantiated with i8 and u8, the   *)
(* narrowest signed and unsigned types the source implements LineRSInt     *)
(* for; every T-level +, - and * keeps the type's width: a result outside  *)
(* T's range is recorded and wraps (a build without overflow checks) or    *)
(* panics (a build with overflow checks).                                  *)
(***************************************************************************)
EXTENDS Integers, Sequences, FiniteSets, TLC

VARIABLES
  entry,            \* which entry point runs: "calculate_line" or "SignedInt"
  T,                \* the integer type the generic code is instantiated with
  overflow_checks,  \* build setting: TRUE panics on overflow, FALSE wraps
  pc,               \* start, loop, done / call, returned / panicked, aborted
  p1, p2,           \* arguments of calculate_line
  x, y,             \* running dominant / minor coordinate
  x_diff, y_diff,   \* SignedInt deltas (after the optional swap)
  swap_axes,
  bresenham_diff,   \* the decision variable
  line,             \* the Vec<Point<T>> built so far
  i, high,          \* loop counter and its bound
  events,           \* history: arithmetic events so far, in execution order
  made,             \* history: every SignedInt value constructed so far
  self, lhs, rhs,   \* arguments of a direct SignedInt call
  method,           \* the SignedInt method called
  ret               \* its outcome

vars == <<entry, T, overflow_checks, pc, p1, p2, x, y, x_diff, y_diff,
          swap_axes, bresenham_diff, line, i, high, events, made,
          self, lhs, rhs, method, ret>>

\* ------------------------------------------------------------------ bounds
MaxCoord == 3
MaxMag == 4

\* ------------------------------------------------------- the integer types
Types == {"i8", "u8"}

TMin(ty) == IF ty = "i8" THEN -128 ELSE 0
TMax(ty) == IF ty = "i8" THEN 127 ELSE 255
TRange(ty) == TMax(ty) - TMin(ty) + 1
InT(ty, v) == TMin(ty) <= v /\ v <= TMax(ty)

\* two's-complement wrap of a mathematical result into T
Wrap(ty, v) == ((v - TMin(ty)) % TRange(ty)) + TMin(ty)

line_rs_zero == 0
line_rs_one == 1
line_rs_two == 2

\* T-level arithmetic: the wrapped value and the events of the operation:
\* the exact result left T's range; a subtraction had a minuend smaller than
\* its subtrahend.
t_add(ty, a, b) ==
  [val |-> Wrap(ty, a + b),
   ev |-> IF InT(ty, a + b) THEN <<>> ELSE <<"add_overflow">>]

t_sub(ty, a, b) ==
  [val |-> Wrap(ty, a - b),
   ev |-> (IF a < b THEN <<"unordered_sub">> ELSE <<>>)
            \o (IF InT(ty, a - b) THEN <<>> ELSE <<"sub_overflow">>)]

t_mul(ty, a, b) ==
  [val |-> Wrap(ty, a * b),
   ev |-> IF InT(ty, a * b) THEN <<>> ELSE <<"mul_overflow">>]

\* a value used as it is
t_keep(c) == [val |-> c, ev |-> <<>>]

OverflowEvents == {"add_overflow", "sub_overflow", "mul_overflow"}

\* The events that end the call: unbounded recursion overflows the stack; an
\* arithmetic overflow panics in a build with overflow checks.
Fatal(e) ==
  e = "unbounded_recursion" \/ (overflow_checks /\ e \in OverflowEvents)

Crashes(ev) == \E k \in 1..Len(ev) : Fatal(ev[k])

\* the events that happen before the call ends: up to the first fatal one
Executed(ev) ==
  IF Crashes(ev)
    THEN SubSeq(ev, 1, CHOOSE k \in 1..Len(ev) :
                         Fatal(ev[k]) /\ \A j \in 1..(k - 1) : ~Fatal(ev[j]))
    ELSE ev

Point(px, py) == [x |-> px, y |-> py]

\* ---------------------------------------------------------------- SignedInt
SignedInt(m, s) == [magnitude |-> m, sign |-> s]

\* An outcome of a SignedInt method: the value returned, the events of the T
\* operations it executed, the add/sub methods entered (in call order) and
\* every SignedInt value it constructed.
Outcome(v, t) == [val |-> v, ev |-> t.ev, calls |-> <<>>, made |-> {v}]

\* first ran, then second ran and its value is the result
Then(first, second) ==
  [val |-> second.val,
   ev |-> first.ev \o second.ev,
   calls |-> first.calls \o second.calls,
   made |-> first.made \cup second.made]

Entered(name, out) == [out EXCEPT !.calls = <<name>> \o @]

\* add and sub hand a negative rhs to each other as its magnitude.  When the
\* magnitude is rhs itself (rhs = T::MIN, whose negation wraps to T::MIN) the
\* callee is in the caller's situation and the recursion never returns.
Unbounded(s) ==
  [val |-> s, ev |-> <<"unbounded_recursion">>, calls |-> <<>>, made |-> {}]

diff_of_strict(ty, a, b) ==
  IF a > b
    THEN Outcome(SignedInt(t_sub(ty, a, b).val, "Pos"), t_sub(ty, a, b))
    ELSE Outcome(SignedInt(t_sub(ty, b, a).val, "Neg"), t_sub(ty, b, a))

diff_of_unordered(ty, a, b) ==
  IF a >= b
    THEN Outcome(SignedInt(t_sub(ty, a, b).val, "Pos"), t_sub(ty, a, b))
    ELSE Outcome(SignedInt(t_sub(ty, a, b).val, "Neg"), t_sub(ty, a, b))

diff_of(ty, a, b) ==
  IF a >= b
    THEN Outcome(SignedInt(t_sub(ty, a, b).val, "Pos"), t_sub(ty, a, b))
    ELSE Outcome(SignedInt(t_sub(ty, b, a).val, "Neg"), t_sub(ty, b, a))

from(ty, val) == diff_of(ty, val, line_rs_zero)

RECURSIVE sub(_, _, _), add(_, _, _)

sub_native(ty, s, r) ==
  Entered("sub",
    LET rhs_signed == from(ty, r) IN
    IF rhs_signed.val.sign = "Neg"
      THEN IF rhs_signed.val.magnitude = r
             THEN Then(rhs_signed, Unbounded(s))
             ELSE Then(rhs_signed, add(ty, s, rhs_signed.val.magnitude))
      ELSE IF s.sign = "Neg"
        THEN Then(rhs_signed,
                  Outcome(SignedInt(t_add(ty, s.magnitude, r).val, "Neg"),
                          t_add(ty, s.magnitude, r)))
        ELSE Then(rhs_signed,
                  Outcome(SignedInt(t_sub(ty, s.magnitude, r).val,
                                    IF s.magnitude >= r THEN "Pos" ELSE "Neg"),
                          t_sub(ty, s.magnitude, r))))

sub(ty, s, r) ==
  Entered("sub",
    LET rhs_signed == from(ty, r) IN
    IF rhs_signed.val.sign = "Neg"
      THEN \* rhs negative, subtract becomes add
           IF rhs_signed.val.magnitude = r
             THEN Then(rhs_signed, Unbounded(s))
             ELSE Then(rhs_signed, add(ty, s, rhs_signed.val.magnitude))
      ELSE IF s.sign = "Neg"
        THEN \* -2 - 5 === -(2 + 5)
             Then(rhs_signed,
                  Outcome(SignedInt(t_add(ty, s.magnitude, r).val, "Neg"),
                          t_add(ty, s.magnitude, r)))
        ELSE Then(rhs_signed, diff_of(ty, s.magnitude, r)))

add_neg_self_sum(ty, s, r) ==
  Entered("add",
    LET rhs_signed == from(ty, r) IN
    IF rhs_signed.val.sign = "Neg"
      THEN IF rhs_signed.val.magnitude = r
             THEN Then(rhs_signed, Unbounded(s))
             ELSE Then(rhs_signed, sub(ty, s, rhs_signed.val.magnitude))
      ELSE Then(rhs_signed,
                Outcome(SignedInt(t_add(ty, s.magnitude, r).val, s.sign),
                        t_add(ty, s.magnitude, r))))

add(ty, s, r) ==
  Entered("add",
    LET rhs_signed == from(ty, r) IN
    IF rhs_signed.val.sign = "Neg"
      THEN \* rhs negative, add becomes subtract
           IF rhs_signed.val.magnitude = r
             THEN Then(rhs_signed, Unbounded(s))
             ELSE Then(rhs_signed, sub(ty, s, rhs_signed.val.magnitude))
      ELSE IF s.sign = "Neg"
        THEN \* -5 + 2 === 2 - 5
             Then(rhs_signed, sub(ty, rhs_signed.val, s.magnitude))
        ELSE Then(rhs_signed,
                  Outcome(SignedInt(t_add(ty, s.magnitude, r).val, "Pos"),
                          t_add(ty, s.magnitude, r))))

\* ----------------------------------------------------------- calculate_line
\* One step of a running coordinate in the direction of its delta: the match
\* on x_diff.sign, and the identical match on y_diff.sign.
advance_ignoring_sign(ty, c, diff) ==
  IF diff.magnitude = line_rs_zero
    THEN t_keep(c)
    ELSE t_add(ty, c, line_rs_one)

advance_by_two(ty, c, diff) ==
  IF diff.sign = "Pos"
    THEN IF diff.magnitude = line_rs_zero
           THEN t_keep(c)
           ELSE t_add(ty, c, line_rs_two)
    ELSE t_sub(ty, c, line_rs_two)

advance(ty, c, diff) ==
  IF diff.sign = "Pos"
    THEN IF diff.magnitude = line_rs_zero
           THEN t_keep(c)
           ELSE t_add(ty, c, line_rs_one)
    ELSE t_sub(ty, c, line_rs_one)

\* the point pushed at the end of an iteration, un-swapped
emit_swapped(swap, cx, cy) == Point(cx, cy)

emit(swap, cx, cy) == IF swap THEN Point(cy, cx) ELSE Point(cx, cy)

\* the loop's break condition
loop_break_late(ctr, bound) == ctr > bound

loop_break(ctr, bound) == ctr >= bound

\* The decision variable's initial value.
initial_diff_unscaled(ty, ym, xm) ==
  [val |-> diff_of(ty, ym, xm).val,
   ev |-> diff_of(ty, ym, xm).ev,
   made |-> diff_of(ty, ym, xm).made]

initial_diff(ty, ym, xm) ==
  LET bresenham_2y == t_mul(ty, ym, line_rs_two)
      bresenham_x == xm
      d == diff_of(ty, bresenham_2y.val, bresenham_x)
  IN [val |-> d.val, ev |-> bresenham_2y.ev \o d.ev, made |-> d.made]

\* Everything calculate_line does before its loop: the locals it sets, the
\* events of its T operations and the SignedInt values it constructs.
setup(ty, a, b) ==
  LET xd == diff_of(ty, b.x, a.x)
      yd == diff_of(ty, b.y, a.y)
      swap == xd.val.magnitude < yd.val.magnitude
      xdiff == IF swap THEN yd.val ELSE xd.val
      ydiff == IF swap THEN xd.val ELSE yd.val
      bd == initial_diff(ty, ydiff.magnitude, xdiff.magnitude)
  IN [x |-> IF swap THEN a.y ELSE a.x,
      y |-> IF swap THEN a.x ELSE a.y,
      x_diff |-> xdiff,
      y_diff |-> ydiff,
      swap_axes |-> swap,
      bresenham_diff |-> bd.val,
      line |-> <<a>>,
      i |-> line_rs_zero,
      high |-> xdiff.magnitude,
      ev |-> xd.ev \o yd.ev \o bd.ev,
      made |-> xd.made \cup yd.made \cup bd.made]

\* The update of the decision variable when the minor axis steps.
step_update_no_sub(ty, d, ym, xm) ==
  LET y2 == t_mul(ty, ym, line_rs_two)
      sum == add(ty, d, y2.val)
  IN [sum EXCEPT !.ev = y2.ev \o @]

step_update(ty, d, ym, xm) ==
  LET y2 == t_mul(ty, ym, line_rs_two)
      sum == add(ty, d, y2.val)
      x2 == t_mul(ty, xm, line_rs_two)
      res == sub(ty, sum.val, x2.val)
  IN [val |-> res.val,
      ev |-> y2.ev \o sum.ev \o x2.ev \o res.ev,
      calls |-> sum.calls \o res.calls,
      made |-> sum.made \cup res.made]

\* The update of the decision variable when the minor axis stays.
stay_update(ty, d, ym) ==
  LET y2 == t_mul(ty, ym, line_rs_two)
      sum == add(ty, d, y2.val)
  IN [sum EXCEPT !.ev = y2.ev \o @]

\* One iteration of the loop after its break test, on a record of the locals:
\* the locals it sets, the events and the SignedInt values of this iteration.
iterate(ty, f) ==
  LET ni == t_add(ty, f.i, line_rs_one)
      nx == advance(ty, f.x, f.x_diff)
      stay == f.bresenham_diff.sign = "Neg"
      ny == IF stay THEN t_keep(f.y) ELSE advance(ty, f.y, f.y_diff)
      nd == IF stay
              THEN stay_update(ty, f.bresenham_diff, f.y_diff.magnitude)
              ELSE step_update(ty, f.bresenham_diff, f.y_diff.magnitude,
                               f.x_diff.magnitude)
  IN [f EXCEPT !.i = ni.val,
               !.x = nx.val,
               !.y = ny.val,
               !.bresenham_diff = nd.val,
               !.line = Append(@, emit(f.swap_axes, nx.val, ny.val)),
               !.ev = ni.ev \o nx.ev \o ny.ev \o nd.ev,
               !.made = nd.made]

\* The whole function as one value, in a build that wraps: the line returned
\* (the line built so far if the call never returns) and all its events.
RECURSIVE run_loop(_, _, _)
run_loop(ty, f, seen) ==
  IF "unbounded_recursion" \in {seen[k] : k \in 1..Len(seen)}
       \/ loop_break(f.i, f.high)
    THEN [line |-> f.line, ev |-> seen]
    ELSE LET n == iterate(ty, f) IN run_loop(ty, n, seen \o n.ev)

calculate_line(ty, a, b) == run_loop(ty, setup(ty, a, b), setup(ty, a, b).ev)

\* ------------------------------------------------------------------- inputs
Coords(ty) == {c \in -MaxCoord..MaxCoord : InT(ty, c)}

BoxPoints(ty) == {Point(a, b) : a \in Coords(ty), b \in Coords(ty)}

\* the inputs of tests::it_works, tests::with_isize and tests::with_u32
Scenarios == {<<Point(3, 9), Point(1, 1)>>, <<Point(6, 5), Point(10, 5)>>}

\* coordinates at the ends of T's range and at distances around the
\* overflow thresholds of T
EdgeCoords(ty) == IF ty = "i8" THEN {-128, 0, 31, 43, 64, 127}
                               ELSE {0, 63, 86, 255}

EdgePoints(ty) == {Point(a, b) : a \in EdgeCoords(ty), b \in EdgeCoords(ty)}

Inputs(ty) ==
  (BoxPoints(ty) \X BoxPoints(ty)) \cup Scenarios
    \cup (EdgePoints(ty) \X EdgePoints(ty))

\* SignedInt values the code can construct: no negative zero
SignedInts(ty) ==
  {SignedInt(m, "Pos") : m \in (0..MaxMag) \cup {TMax(ty)}}
    \cup {SignedInt(m, "Neg") : m \in (1..MaxMag) \cup {TMax(ty)}}

PlainValues(ty) ==
  {v \in -MaxMag..MaxMag : InT(ty, v)} \cup {TMin(ty), TMax(ty)}

NoSignedInt == SignedInt(line_rs_zero, "Pos")

NoOutcome ==
  [val |-> NoSignedInt, ev |-> <<>>, calls |-> <<>>, made |-> {}]

\* -------------------------------------------------------------------- state
Frame ==
  [x |-> x, y |-> y, x_diff |-> x_diff, y_diff |-> y_diff,
   swap_axes |-> swap_axes, bresenham_diff |-> bresenham_diff, line |-> line,
   i |-> i, high |-> high, ev |-> <<>>, made |-> {}]

LocalsUnset ==
  /\ x = line_rs_zero /\ y = line_rs_zero
  /\ x_diff = NoSignedInt /\ y_diff = NoSignedInt
  /\ swap_axes = FALSE
  /\ bresenham_diff = NoSignedInt
  /\ line = <<>>
  /\ i = line_rs_zero /\ high = line_rs_zero
  /\ events = <<>>
  /\ made = {}

CallUnset ==
  /\ self = NoSignedInt /\ lhs = line_rs_zero /\ rhs = line_rs_zero
  /\ method = "none"
  /\ ret = NoOutcome

InitLine ==
  /\ entry = "calculate_line"
  /\ T \in Types
  /\ overflow_checks \in BOOLEAN
  /\ \E in \in Inputs(T) : p1 = in[1] /\ p2 = in[2]
  /\ pc = "start"
  /\ LocalsUnset
  /\ CallUnset

InitSignedInt ==
  /\ entry = "SignedInt"
  /\ T \in Types
  /\ overflow_checks \in BOOLEAN
  /\ self \in SignedInts(T)
  /\ lhs \in PlainValues(T)
  /\ rhs \in PlainValues(T)
  /\ method = "none"
  /\ ret = NoOutcome
  /\ pc = "call"
  /\ p1 = Point(line_rs_zero, line_rs_zero)
  /\ p2 = Point(line_rs_zero, line_rs_zero)
  /\ LocalsUnset

Init == InitLine \/ InitSignedInt

\* ------------------------------------------------------------------ actions
lineVars == <<x, y, x_diff, y_diff, swap_axes, bresenham_diff, line, i, high>>
callVars == <<self, lhs, rhs, method, ret>>
fixedVars == <<entry, T, overflow_checks, p1, p2>>

\* how a call that does not return ends
CrashKind(ev) ==
  IF ev[Len(ev)] = "unbounded_recursion" THEN "aborted" ELSE "panicked"

\* the locals after a step that ran to its end
Assign(f) ==
  /\ x' = f.x /\ y' = f.y
  /\ x_diff' = f.x_diff /\ y_diff' = f.y_diff
  /\ swap_axes' = f.swap_axes
  /\ bresenham_diff' = f.bresenham_diff
  /\ line' = f.line
  /\ i' = f.i /\ high' = f.high
  /\ events' = events \o f.ev
  /\ made' = made \cup f.made

\* a step cut short: an overflow panic or a stack overflow unwinds the call
Crash(f) ==
  /\ pc' = CrashKind(Executed(f.ev))
  /\ events' = events \o Executed(f.ev)
  /\ UNCHANGED <<lineVars, made>>

\* calculate_line up to the loop
Setup ==
  /\ entry = "calculate_line" /\ pc = "start"
  /\ LET f == setup(T, p1, p2) IN
       IF Crashes(f.ev) THEN Crash(f) ELSE Assign(f) /\ pc' = "loop"
  /\ UNCHANGED <<fixedVars, callVars>>

\* one iteration of the loop
LoopStep ==
  /\ entry = "calculate_line" /\ pc = "loop"
  /\ ~loop_break(i, high)
  /\ LET f == iterate(T, Frame) IN
       IF Crashes(f.ev) THEN Crash(f) ELSE Assign(f) /\ pc' = "loop"
  /\ UNCHANGED <<fixedVars, callVars>>

\* the break and the return of line
LoopExit ==
  /\ entry = "calculate_line" /\ pc = "loop"
  /\ loop_break(i, high)
  /\ pc' = "done"
  /\ UNCHANGED <<fixedVars, callVars, lineVars, events, made>>

\* a direct call of one SignedInt method
Return(name, out) ==
  /\ entry = "SignedInt" /\ pc = "call"
  /\ method' = name
  /\ ret' = out
  /\ pc' = IF Crashes(out.ev) THEN CrashKind(Executed(out.ev)) ELSE "returned"
  /\ events' = Executed(out.ev)
  /\ made' = out.made
  /\ UNCHANGED <<fixedVars, lineVars, self, lhs, rhs>>

CallDiffOf == Return("diff_of", diff_of(T, lhs, rhs))
CallFrom == Return("from", from(T, rhs))
CallSub == Return("sub", sub(T, self, rhs))
CallAdd == Return("add", add(T, self, rhs))

Next ==
  Setup \/ LoopStep \/ LoopExit \/ CallDiffOf \/ CallFrom \/ CallSub \/ CallAdd

Spec == Init /\ [][Next]_vars

\* ------------------------------------------------------------------ claims
Abs(v) == IF v < 0 THEN -v ELSE v
Sgn(v) == IF v < 0 THEN -1 ELSE IF v > 0 THEN 1 ELSE 0
Max(a, b) == IF a >= b THEN a ELSE b
Min(a, b) == IF a <= b THEN a ELSE b

dx == p2.x - p1.x
dy == p2.y - p1.y
Dominant == Max(Abs(dx), Abs(dy))
Minor == Min(Abs(dx), Abs(dy))
InCall == entry = "calculate_line"
Returned == InCall /\ pc = "done"

EventSet(ev) == {ev[k] : k \in 1..Len(ev)}

\* some T operation of the call has left T's range
Overflowed == EventSet(events) \cap OverflowEvents # {}

\* The contract of the integer type: T's arithmetic does not overflow for the
\* magnitudes involved.  The properties of the result are stated for the
\* calls inside it.
InContract == ~Overflowed

\* C1 (endpoint inclusion): for every p1, p2 the sequence calculate_line
\* returns starts with p1 and ends with p2, in every direction of the line and
\* for p1 = p2.
EndpointInclusion ==
  Returned /\ InContract => line[1] = p1 /\ line[Len(line)] = p2

\* a steep line running down and to the left has been returned
EndpointWitness ==
  /\ Returned /\ InContract /\ swap_axes
  /\ dx < 0 /\ dy < 0
  /\ line[Len(line)] = p2 /\ Len(line) > 2

\* C2 (length): the loop runs exactly max(|dx|, |dy|) iterations and then
\* breaks, so the returned sequence has max(|dx|, |dy|) + 1 points, and
\* calculate_line(p, p) returns <<p>>.
LoopCount ==
  InCall /\ InContract =>
    /\ pc \in {"loop", "done"} => i <= Dominant /\ Len(line) = i + 1
    /\ pc = "loop" /\ i = Dominant => ~ENABLED LoopStep
    /\ pc = "loop" /\ i < Dominant => ~ENABLED LoopExit
    /\ pc = "done" => i = Dominant /\ Len(line) = Dominant + 1
    /\ pc = "done" /\ p1 = p2 => line = <<p1>>

\* the loop has run its last of at least three iterations and must now break
LoopCountWitness ==
  /\ InCall /\ InContract /\ pc = "loop" /\ i = Dominant /\ Dominant >= 3
  /\ Len(line) = Dominant + 1

\* C3 (step discipline): consecutive points differ by at most one on each
\* axis and are never equal.
StepDiscipline ==
  InCall /\ InContract =>
    \A k \in 1..(Len(line) - 1) :
      /\ Abs(line[k + 1].x - line[k].x) <= 1
      /\ Abs(line[k + 1].y - line[k].y) <= 1
      /\ line[k + 1] # line[k]

\* a returned line with a step on both axes and a step on one axis only
StepDisciplineWitness ==
  /\ Returned /\ InContract
  /\ \E k \in 1..(Len(line) - 1) :
       line[k + 1].x # line[k].x /\ line[k + 1].y # line[k].y
  /\ \E k \in 1..(Len(line) - 1) :
       line[k + 1].x = line[k].x \/ line[k + 1].y = line[k].y

\* C4 (monotonicity per axis): x never decreases along the sequence when
\* p2.x >= p1.x and never increases when p2.x < p1.x; likewise y; swapped
\* axes or not.
Monotonicity ==
  InCall /\ InContract =>
    \A k \in 1..(Len(line) - 1) :
      /\ dx >= 0 => line[k + 1].x >= line[k].x
      /\ dx < 0 => line[k + 1].x <= line[k].x
      /\ dy >= 0 => line[k + 1].y >= line[k].y
      /\ dy < 0 => line[k + 1].y <= line[k].y

\* a returned line over swapped axes whose x falls while its y rises
MonotonicityWitness ==
  /\ Returned /\ InContract /\ swap_axes
  /\ dx < 0 /\ dy > 0
  /\ line[Len(line)].x < line[1].x /\ line[Len(line)].y > line[1].y

\* C5 as stated (overflow precondition): whenever the coordinates are in T's
\* range and 2 * max(|dx|, |dy|) is representable in T, no +, - or * that
\* calculate_line executes leaves T's range.
OverflowPrecondition ==
  InCall /\ 2 * Dominant <= TMax(T) => ~Overflowed

\* C5 as amended: whenever the coordinates are in T's range and
\* 2 * (|dx| + |dy|) is representable in T, no +, - or * that calculate_line
\* executes leaves T's range.
OverflowPreconditionAmended ==
  InCall /\ 2 * (Abs(dx) + Abs(dy)) <= TMax(T) =>
    ~Overflowed /\ pc \notin {"panicked", "aborted"}

\* a diagonal returned without overflow within four of the amended limit
OverflowPreconditionWitness ==
  /\ Returned /\ ~Overflowed
  /\ 2 * (Abs(dx) + Abs(dy)) <= TMax(T)
  /\ 2 * (Abs(dx) + Abs(dy)) > TMax(T) - 4
  /\ Len(line) = Dominant + 1

\* C6 (unsigned safety): with T unsigned and no addition (or doubling)
\* overflowing, every T subtraction executed has a minuend at least as large
\* as its subtrahend: those inside diff_of and the decrements x - 1, y - 1.
UnsignedSafety ==
  T = "u8" /\ EventSet(events) \cap {"add_overflow", "mul_overflow"} = {} =>
    "unordered_sub" \notin EventSet(events)

\* an unsigned line decremented on both axes down to the origin, whose
\* decision variable has been negative
UnsignedSafetyWitness ==
  /\ Returned /\ T = "u8" /\ events = <<>>
  /\ dx < 0 /\ dy < 0 /\ Abs(dx) # Abs(dy)
  /\ line[Len(line)] = Point(0, 0)
  /\ \E s \in made : s.sign = "Neg"

OtherType(ty) == IF ty = "i8" THEN "u8" ELSE "i8"

\* a point both i8 and u8 can hold
InBothTypes(pt) ==
  \A ty \in Types : InT(ty, pt.x) /\ InT(ty, pt.y)

\* C7 (signed/unsigned agreement): for coordinates that are not negative the
\* signed and the unsigned instantiation return the same sequence, when no
\* addition (or doubling) overflows in either; for (6,5) -> (10,5) it is the
\* sequence tests::with_isize and tests::with_u32 expect.
SignedUnsignedAgreement ==
  /\ ( /\ Returned /\ InBothTypes(p1) /\ InBothTypes(p2)
       /\ EventSet(events) \cap {"add_overflow", "mul_overflow"} = {}
       /\ EventSet(calculate_line(OtherType(T), p1, p2).ev)
            \cap {"add_overflow", "mul_overflow"} = {} )
     => /\ events = <<>>
        /\ calculate_line(OtherType(T), p1, p2).ev = <<>>
        /\ calculate_line(OtherType(T), p1, p2).line = line
  /\ Returned /\ p1 = Point(6, 5) /\ p2 = Point(10, 5) =>
       line = <<Point(6, 5), Point(7, 5), Point(8, 5), Point(9, 5),
                Point(10, 5)>>

\* the unsigned run of the tests' horizontal line has been returned
SignedUnsignedAgreementWitness ==
  /\ Returned /\ T = "u8"
  /\ p1 = Point(6, 5) /\ p2 = Point(10, 5)
  /\ calculate_line("i8", p1, p2).line = line
  /\ Len(line) = 5

\* the k-th point (0-based) of the Bresenham reference
RefMinor(k) == (2 * k * Minor + Dominant) \div (2 * Dominant)

RefPoint(k) ==
  IF Abs(dx) >= Abs(dy)
    THEN Point(p1.x + k * Sgn(dx), p1.y + Sgn(dy) * RefMinor(k))
    ELSE Point(p1.x + Sgn(dx) * RefMinor(k), p1.y + k * Sgn(dy))

\* C8 (reference output): with D = max(|dx|, |dy|) > 0 and m = min(|dx|,
\* |dy|), the k-th point has the dominant coordinate p1's + k * sign and the
\* minor coordinate p1's + sign * floor((2*k*m + D) / (2*D)); it is the line
\* tests::it_works expects for (3,9) -> (1,1).
BresenhamReference ==
  /\ Returned /\ InContract /\ Dominant > 0 =>
       /\ Len(line) = Dominant + 1
       /\ \A k \in 0..Dominant : line[k + 1] = RefPoint(k)
  /\ Returned /\ p1 = Point(3, 9) /\ p2 = Point(1, 1) =>
       line = <<Point(3, 9), Point(3, 8), Point(2, 7), Point(2, 6),
                Point(2, 5), Point(2, 4), Point(1, 3), Point(1, 2),
                Point(1, 1)>>

\* the line of tests::it_works has been returned
BresenhamReferenceWitness ==
  Returned /\ p1 = Point(3, 9) /\ p2 = Point(1, 1) /\ Len(line) = 9

NoNegativeZero(s) == s.sign = "Neg" => s.magnitude > 0

\* C9 (no negative zero): every SignedInt that exists during calculate_line
\* (x_diff, y_diff, the decision variable before and after every iteration,
\* the result of add before sub and the values add and sub build on the way)
\* has magnitude > 0 when its sign is Neg; and so has every value diff_of,
\* from, add and sub return or build for a self that satisfies it.
NoNegativeZeroInvariant ==
  InContract =>
    /\ NoNegativeZero(x_diff)
    /\ NoNegativeZero(y_diff)
    /\ NoNegativeZero(bresenham_diff)
    /\ NoNegativeZero(self) => NoNegativeZero(ret.val)
    /\ NoNegativeZero(self) => \A s \in made : NoNegativeZero(s)

\* a returned line whose decision variable has been negative and exactly zero
NoNegativeZeroWitness ==
  /\ Returned /\ InContract
  /\ SignedInt(line_rs_zero, "Pos") \in made
  /\ \E s \in made : s.sign = "Neg"
  /\ x_diff.sign = "Neg"

Value(s) == IF s.sign = "Neg" THEN -s.magnitude ELSE s.magnitude

\* the number of places where method a hands over to method b
Delegations(calls, a, b) ==
  Cardinality({k \in 1..(Len(calls) - 1) : calls[k] = a /\ calls[k + 1] = b})

\* C10 (signed-magnitude arithmetic): for every self without negative zero
\* and every rhs of T, negative ones included, with no overflow of T, add
\* returns value(self) + rhs and sub returns value(self) - rhs, and the
\* recursion between add and sub returns after at most one delegation in
\* each direction.
SignedArithmeticExact ==
  entry = "SignedInt" /\ method \in {"add", "sub"} /\ InContract =>
    /\ pc = "returned"
    /\ method = "add" => Value(ret.val) = Value(self) + rhs
    /\ method = "sub" => Value(ret.val) = Value(self) - rhs
    /\ ret.val.magnitude >= 0
    /\ ret.calls[1] = method
    /\ Delegations(ret.calls, "add", "sub") <= 1
    /\ Delegations(ret.calls, "sub", "add") <= 1

\* sub of a negative rhs from a negative self: sub -> add -> sub
SignedArithmeticWitness ==
  /\ entry = "SignedInt" /\ pc = "returned" /\ method = "sub" /\ InContract
  /\ self.sign = "Neg" /\ rhs < 0
  /\ ret.calls = <<"sub", "add", "sub">>
  /\ Value(ret.val) = Value(self) - rhs

====
